---- MODULE Spec2Model ----
(***************************************************************************)
(* Client-side session / identity lifecycle: the useAuth hook (signup,     *)
(* login, logout, updateProfile, changePassword, the loadSession bootstrap  *)
(* and its event listeners), the AuthProvider mount effect and the          *)
(* initializeAdminUser auto-login.                                          *)
(*                                                                          *)
(* Every async function is cut at its awaits: the code between two awaits   *)
(* runs without interruption (single-threaded event loop), so each action   *)
(* below is one such continuation.  A persistence call takes effect (or     *)
(* fails) at the step that resumes the caller.                              *)
(*                                                                          *)
(* Time is counted in days.  Strings that are only compared for equality    *)
(* are TLA+ strings; emails are sequences of characters so that             *)
(* toLowerCase() is computed; tokens are the positive integers in the       *)
(* order crypto.randomUUID() hands them out.                                *)
(***************************************************************************)
EXTENDS Integers, Sequences, FiniteSets, TLC

\* ------------------------------------------------------------------ bounds
MaxUsers == 2
MaxTokens == 2
MaxTasks == 3
MaxPending == 2
MaxTicks == 2

\* ------------------------------------------------------- program constants
SESSION_EXPIRY_DAYS == 30
NoToken == 0
NoExpiry == 0
NoId == 0

Views == {1, 2}
Stores == {1, 2}

MsgExists == "User with this email already exists"
MsgInvalid == "Invalid email or password"
MsgDeactivated == "Account is deactivated"
MsgNoUser == "No user logged in"
MsgWrongCurrent == "Current password is incorrect"
MsgLoadFailed == "Failed to load session"
NoError == "null"

\* ------------------------------------------------------------ input domains
Emails == {<<"a">>, <<"A">>, <<"b">>}
Passwords == {"p", "q"}
Names == {"n"}
AdminEmails == {<<>>, <<"A">>}

\* ---------------------------------------------------------- pure functions
LowerChar(c) ==
  CASE c = "A" -> "a"
    [] c = "B" -> "b"
    [] OTHER -> c

toLowerCase(s) == [i \in DOMAIN s |-> LowerChar(s[i])]

hashPassword(password) == <<"sha256", password>>

getSessionExpiry(t) == t + SESSION_EXPIRY_DAYS

\* isSessionExpired without the date comparison: a present expiry never expires
isSessionExpiredOnlyWhenAbsent(expiryTimestamp, t) ==
  expiryTimestamp = NoExpiry

isSessionExpired(expiryTimestamp, t) ==
  IF expiryTimestamp = NoExpiry THEN TRUE ELSE expiryTimestamp < t

Min(S) == CHOOSE x \in S : \A y \in S : x <= y

\* the email comparison without normalisation
EmailMatchesExactly(u, email) == u.email = email

EmailMatches(u, email) == toLowerCase(u.email) = toLowerCase(email)

\* Array.prototype.find: index of the first matching record, NoId when none
FindByEmail(allUsers, email) ==
  LET S == {i \in DOMAIN allUsers : EmailMatches(allUsers[i], email)}
  IN IF S = {} THEN NoId ELSE Min(S)

\* the token lookup with the comparison negated
FindByTokenNegated(allUsers, sessionToken) ==
  LET S == {i \in DOMAIN allUsers : allUsers[i].sessionToken # sessionToken}
  IN IF S = {} THEN NoId ELSE Min(S)

\* the token lookup that also accepts an identity without a token
FindByTokenOrAbsent(allUsers, sessionToken) ==
  LET S == {i \in DOMAIN allUsers :
              \/ allUsers[i].sessionToken = sessionToken
              \/ allUsers[i].sessionToken = NoToken}
  IN IF S = {} THEN NoId ELSE Min(S)

FindByToken(allUsers, sessionToken) ==
  LET S == {i \in DOMAIN allUsers : allUsers[i].sessionToken = sessionToken}
  IN IF S = {} THEN NoId ELSE Min(S)

\* ------------------------------------------------------------ record shapes
NullUser ==
  [id |-> NoId, email |-> <<>>, passwordHash |-> <<>>, name |-> "",
   sessionToken |-> NoToken, isActive |-> ""]

NewUser(id, email, passwordHash, name, sessionToken, isActive) ==
  [id |-> id, email |-> email, passwordHash |-> passwordHash, name |-> name,
   sessionToken |-> sessionToken, isActive |-> isActive]

\* ------------------------------------------------------ persistence adapter
RepoList(us) == us

RepoGet(us, id) == IF id \in DOMAIN us THEN us[id] ELSE NullUser

RepoCreate(us, fields) == Append(us, [fields EXCEPT !.id = Len(us) + 1])

RepoUpdate(us, id, partial) ==
  IF id \in DOMAIN us
  THEN [us EXCEPT ![id] =
          [k \in DOMAIN us[id] |->
             IF k \in DOMAIN partial THEN partial[k] ELSE us[id][k]]]
  ELSE us

RepoError == "Repository error"

\* -------------------------------------------------------------------- state
VARIABLES
  users,        \* the AuthUser collection behind the repository, id = position
  ls,           \* localStorage per browser profile: token, expiry, adminInit
  currentUser,  \* useState currentUser, per view
  loading,      \* useState loading, per view
  error,        \* useState error, per view
  tasks,        \* suspended async calls, one per slot
  pending,      \* storage events queued for each view
  nextToken,    \* the next value crypto.randomUUID() returns
  now,          \* the clock, in days
  mounted,      \* whether the view's AuthProvider is mounted
  storeOf,      \* the browser profile each view belongs to
  adminEmail,   \* VITE_ADMIN_EMAIL, empty when not configured
  recent,       \* the last call that returned, when it was a successful
                \* signup or changePassword
  step          \* what the last step did: a loadSession run, a call's return

vars ==
  <<users, ls, currentUser, loading, error, tasks, pending, nextToken, now,
    mounted, storeOf, adminEmail, recent, step>>

Slots == 1..MaxTasks

\* what is kept of a successful signup or changePassword for the login that
\* follows it
NoSummary ==
  [op |-> "none", id |-> NoId, email |-> <<>>, password |-> "",
   newPassword |-> ""]

Summary(r) ==
  IF r.success /\ r.op \in {"signup", "changePassword"}
  THEN [op |-> r.op, id |-> r.id, email |-> r.email, password |-> r.password,
        newPassword |-> r.newPassword]
  ELSE NoSummary

IdleTask ==
  [kind |-> "idle", pc |-> "idle", view |-> 0, email |-> <<>>,
   password |-> "", newPassword |-> "", name |-> "", user |-> NullUser,
   token |-> NoToken, expiry |-> NoExpiry, hash |-> <<>>, after |-> NoSummary]

NoResult ==
  [op |-> "none", view |-> 0, email |-> <<>>, password |-> "",
   newPassword |-> "", success |-> FALSE, error |-> NoError, threw |-> FALSE,
   id |-> NoId, failed |-> FALSE, after |-> NoSummary]

\* act, view: the handler or continuation that ran and its view; boot: the
\* view whose loadSession ran in the step (0: none) and phase how far it got;
\* res: what the call that returned in the step returned
NoStep ==
  [act |-> "none", view |-> 0, boot |-> 0, phase |-> "none", res |-> NoResult]

EmptyStore == [token |-> NoToken, expiry |-> NoExpiry, adminInit |-> FALSE]

\* the pre-provisioned administrator record, created server-side
AdminRecord(isActive) ==
  NewUser(1, <<"a">>, hashPassword("p"), "n", NoToken, isActive)

\* the administrator record exists only where an administrator is configured;
\* it may not be there yet, and it may have been deactivated
InitialUsers(admin) ==
  IF admin = << >>
  THEN {<< >>}
  ELSE {<< >>, <<AdminRecord("true")>>, <<AdminRecord("false")>>}

InitWith(profiles) ==
  /\ adminEmail \in AdminEmails
  /\ users \in InitialUsers(adminEmail)
  /\ ls = [s \in Stores |-> EmptyStore]
  /\ currentUser = [v \in Views |-> NullUser]
  /\ loading = [v \in Views |-> TRUE]
  /\ error = [v \in Views |-> NoError]
  /\ tasks = [t \in Slots |-> IdleTask]
  /\ pending = [v \in Views |-> 0]
  /\ nextToken = 1
  /\ now = 1
  /\ mounted = [v \in Views |-> FALSE]
  /\ storeOf \in profiles
  /\ recent = NoSummary
  /\ step = NoStep

\* two views of one browser profile, or of two
Init == InitWith({[v \in Views |-> 1], [v \in Views |-> v]})

\* one view
InitSeq == InitWith({[v \in Views |-> 1]})

\* ------------------------------------------------- the state as one value
W0 ==
  [users |-> users, ls |-> ls, cur |-> currentUser, loading |-> loading,
   error |-> error, tasks |-> tasks, pending |-> pending,
   nextToken |-> nextToken, boot |-> 0, phase |-> "none", done |-> NoResult,
   ovf |-> FALSE]

Commit(act, v, w) ==
  /\ ~w.ovf
  /\ users' = w.users
  /\ ls' = w.ls
  /\ currentUser' = w.cur
  /\ loading' = w.loading
  /\ error' = w.error
  /\ tasks' = w.tasks
  /\ pending' = w.pending
  /\ nextToken' = w.nextToken
  /\ recent' = IF w.done.op = "none" THEN recent ELSE Summary(w.done)
  /\ step' = [act |-> act, view |-> v, boot |-> w.boot, phase |-> w.phase,
              res |-> w.done]


Result(op, v, email, password, newPassword, success, err, threw, id, failed) ==
  [op |-> op, view |-> v, email |-> email, password |-> password,
   newPassword |-> newPassword, success |-> success, error |-> err,
   threw |-> threw, id |-> id, failed |-> failed, after |-> NoSummary]

Quiescent ==
  /\ \A t \in Slots : tasks[t].kind = "idle"
  /\ \A v \in Views : pending[v] = 0

\* ---------------------------------------------------------- session store
\* localStorage.setItem / removeItem by view v: other mounted views of the
\* same browser profile get a storage event when the value changes
SetItem(w, v, key, val) ==
  LET s == storeOf[v]
      listeners == {x \in Views : x # v /\ mounted[x] /\ storeOf[x] = s}
      p == [x \in Views |->
              IF x \in listeners /\ key \in {"token", "expiry"}
              THEN w.pending[x] + 1 ELSE w.pending[x]]
  IN IF w.ls[s][key] = val
     THEN w
     ELSE [w EXCEPT !.ls[s][key] = val,
                    !.pending = p,
                    !.ovf = @ \/ (\E x \in Views : p[x] > MaxPending)]

ClearSession(w, v) ==
  SetItem(SetItem(w, v, "token", NoToken), v, "expiry", NoExpiry)

WriteSession(w, v, sessionToken, sessionExpiry) ==
  SetItem(SetItem(w, v, "token", sessionToken), v, "expiry", sessionExpiry)

StartTask(w, task) ==
  LET free == {t \in Slots : w.tasks[t].kind = "idle"}
  IN IF free = {}
     THEN [w EXCEPT !.ovf = TRUE]
     ELSE [w EXCEPT !.tasks[Min(free)] = task]

EndTask(w, t) == [w EXCEPT !.tasks[t] = IdleTask]

generateSessionToken(w) == w.nextToken

Minted(w) ==
  [w EXCEPT !.nextToken = @ + 1, !.ovf = @ \/ (w.nextToken > MaxTokens)]

BootEvent(w, v, phase) == [w EXCEPT !.boot = v, !.phase = phase]

\* -------------------------------------------------------------- loadSession
\* a loadSession that, finding no token, broadcasts a signal which its own
\* listener receives
LoadSessionBeginRebroadcasts(w, v) ==
  LET w1 == [w EXCEPT !.loading[v] = TRUE]
      sessionToken == w.ls[storeOf[v]].token
      sessionExpiry == w.ls[storeOf[v]].expiry
  IN IF sessionExpiry # NoExpiry /\ isSessionExpired(sessionExpiry, now)
     THEN LET w2 == ClearSession(w1, v)
          IN BootEvent([w2 EXCEPT !.cur[v] = NullUser, !.loading[v] = FALSE],
                       v, "expired")
     ELSE IF sessionToken # NoToken
     THEN BootEvent(
            StartTask(w1, [IdleTask EXCEPT !.kind = "loadSession", !.pc = "list",
                                           !.view = v, !.token = sessionToken]),
            v, "suspended")
     ELSE BootEvent([w1 EXCEPT !.cur[v] = NullUser, !.loading[v] = FALSE,
                               !.pending[v] = 1],
                    v, "notoken")

\* loadSession up to its first await
LoadSessionBegin(w, v) ==
  LET w1 == [w EXCEPT !.loading[v] = TRUE]
      sessionToken == w.ls[storeOf[v]].token
      sessionExpiry == w.ls[storeOf[v]].expiry
  IN IF sessionExpiry # NoExpiry /\ isSessionExpired(sessionExpiry, now)
     THEN LET w2 == ClearSession(w1, v)
          IN BootEvent([w2 EXCEPT !.cur[v] = NullUser, !.loading[v] = FALSE],
                       v, "expired")
     ELSE IF sessionToken # NoToken
     THEN BootEvent(
            StartTask(w1, [IdleTask EXCEPT !.kind = "loadSession", !.pc = "list",
                                           !.view = v, !.token = sessionToken]),
            v, "suspended")
     ELSE BootEvent([w1 EXCEPT !.cur[v] = NullUser, !.loading[v] = FALSE],
                    v, "notoken")

\* loadSession after `await repo.list()`, leaving an unmatched token in place
LoadSessionSettleKeepsOrphan(w, t, ok) ==
  LET v == w.tasks[t].view
      sessionToken == w.tasks[t].token
      allUsers == RepoList(w.users)
      i == FindByToken(allUsers, sessionToken)
      w1 == EndTask(w, t)
  IN IF ~ok
     THEN BootEvent([w1 EXCEPT !.error[v] = MsgLoadFailed, !.loading[v] = FALSE],
                    v, "error")
     ELSE IF i # NoId
     THEN BootEvent([w1 EXCEPT !.cur[v] = allUsers[i], !.loading[v] = FALSE],
                    v, "found")
     ELSE BootEvent([w1 EXCEPT !.cur[v] = NullUser, !.loading[v] = FALSE],
                    v, "orphan")

\* loadSession after `await repo.list()`
LoadSessionSettle(w, t, ok) ==
  LET v == w.tasks[t].view
      sessionToken == w.tasks[t].token
      allUsers == RepoList(w.users)
      i == FindByToken(allUsers, sessionToken)
      w1 == EndTask(w, t)
  IN IF ~ok
     THEN BootEvent([w1 EXCEPT !.error[v] = MsgLoadFailed, !.loading[v] = FALSE],
                    v, "error")
     ELSE IF i # NoId
     THEN BootEvent([w1 EXCEPT !.cur[v] = allUsers[i], !.loading[v] = FALSE],
                    v, "found")
     ELSE LET w2 == ClearSession(w1, v)
          IN BootEvent([w2 EXCEPT !.cur[v] = NullUser, !.loading[v] = FALSE],
                       v, "orphan")

\* window.dispatchEvent(new Event("auth_session_updated")) in view v
DispatchUpdated(w, v) == IF mounted[v] THEN LoadSessionBegin(w, v) ELSE w

\* ------------------------------------------------------- initializeAdminUser
\* initializeAdminUser without the test of the initialized flag
InitializerBeginNoFlagCheck(w, v) ==
  IF adminEmail = << >>
  THEN w
  ELSE StartTask(w, [IdleTask EXCEPT !.kind = "init", !.pc = "list", !.view = v])

InitializerBegin(w, v) ==
  IF w.ls[storeOf[v]].adminInit
  THEN w
  ELSE IF adminEmail = << >>
  THEN w
  ELSE StartTask(w, [IdleTask EXCEPT !.kind = "init", !.pc = "list", !.view = v])

InitializerFinish(w, v, sessionToken) ==
  LET sessionExpiry == now + SESSION_EXPIRY_DAYS
      w1 == WriteSession(w, v, sessionToken, sessionExpiry)
      w2 == SetItem(w1, v, "adminInit", TRUE)
  IN DispatchUpdated(w2, v)

\* initializeAdminUser minting a token whether or not the identity has one
InitializerAfterListAlwaysMints(w, t, ok) ==
  LET v == w.tasks[t].view
      normalizedEmail == toLowerCase(adminEmail)
      allUsers == RepoList(w.users)
      S == {i \in DOMAIN allUsers :
              toLowerCase(allUsers[i].email) = normalizedEmail}
      w1 == EndTask(w, t)
  IN IF ~ok \/ S = {}
     THEN w1
     ELSE LET adminUser == allUsers[Min(S)]
              w2 == Minted(w)
          IN [w2 EXCEPT !.tasks[t].pc = "update",
                        !.tasks[t].user = adminUser,
                        !.tasks[t].token = generateSessionToken(w)]

InitializerAfterList(w, t, ok) ==
  LET v == w.tasks[t].view
      normalizedEmail == toLowerCase(adminEmail)
      allUsers == RepoList(w.users)
      S == {i \in DOMAIN allUsers : toLowerCase(allUsers[i].email) = normalizedEmail}
      w1 == EndTask(w, t)
  IN IF ~ok \/ S = {}
     THEN w1
     ELSE LET adminUser == allUsers[Min(S)]
          IN IF adminUser.sessionToken = NoToken
             THEN LET w2 == Minted(w)
                  IN [w2 EXCEPT !.tasks[t].pc = "update",
                                !.tasks[t].user = adminUser,
                                !.tasks[t].token = generateSessionToken(w)]
             ELSE InitializerFinish(w1, v, adminUser.sessionToken)

InitializerAfterUpdate(w, t, ok) ==
  LET v == w.tasks[t].view
      sessionToken == w.tasks[t].token
      w1 == EndTask(w, t)
  IN IF ~ok
     THEN w1
     ELSE InitializerFinish(
            [w1 EXCEPT !.users = RepoUpdate(w.users, w.tasks[t].user.id,
                                            [sessionToken |-> sessionToken])],
            v, sessionToken)

\* ------------------------------------------------------------------- signup
\* what a call returns, with the state updates of its return path:
\* setError on failure and the `finally` that resets loading
Return(w, t, success, err, failed) ==
  LET k == w.tasks[t]
      w1 == IF success THEN w ELSE [w EXCEPT !.error[k.view] = err]
  IN [EndTask(w1, t) EXCEPT
        !.loading[k.view] = FALSE,
        !.done = [Result(k.kind, k.view, k.email, k.password, k.newPassword,
                         success, IF success THEN NoError ELSE err, FALSE,
                         k.user.id, failed) EXCEPT !.after = k.after]]

\* a `catch` that lets the repository's error escape to the caller
CaughtRethrows(w, t) ==
  [Return(w, t, FALSE, RepoError, TRUE) EXCEPT !.done.threw = TRUE]

\* the `catch` of signup, login, updateProfile, changePassword
Caught(w, t) == Return(w, t, FALSE, RepoError, TRUE)

SignupBegin(w, v, email, password, name) ==
  StartTask([w EXCEPT !.loading[v] = TRUE, !.error[v] = NoError],
            [IdleTask EXCEPT !.kind = "signup", !.pc = "list", !.view = v,
                             !.email = email, !.password = password,
                             !.name = name])

\* signup going on without looking for an identity with the email
SignupCheckNoDuplicateTest(w, t, ok, nextPc) ==
  IF ~ok THEN Caught(w, t) ELSE [w EXCEPT !.tasks[t].pc = nextPc]

\* both duplicate checks: after `await repo.list()` at pc "list" and "recheck"
SignupCheck(w, t, ok, nextPc) ==
  LET allUsers == RepoList(w.users)
      existingUser == FindByEmail(allUsers, w.tasks[t].email)
  IN IF ~ok
     THEN Caught(w, t)
     ELSE IF existingUser # NoId
     THEN Return(w, t, FALSE, MsgExists, FALSE)
     ELSE [w EXCEPT !.tasks[t].pc = nextPc]

SignupAfterHash(w, t) ==
  LET w1 == Minted(w)
  IN [w1 EXCEPT !.tasks[t].pc = "recheck",
                !.tasks[t].hash = hashPassword(w.tasks[t].password),
                !.tasks[t].token = generateSessionToken(w),
                !.tasks[t].expiry = getSessionExpiry(now)]

\* signup's create storing the email as typed
SignupAfterCreateRawEmail(w, t, ok) ==
  LET k == w.tasks[t]
      created == RepoCreate(w.users,
                   NewUser(NoId, k.email, k.hash, k.name, k.token, "true"))
      newUser == created[Len(created)]
      w1 == [w EXCEPT !.users = created, !.tasks[t].user = newUser,
                      !.ovf = @ \/ (Len(w.users) >= MaxUsers)]
      w2 == WriteSession(w1, k.view, k.token, k.expiry)
      w3 == Return(w2, t, TRUE, NoError, FALSE)
      w4 == DispatchUpdated(w3, k.view)
  IN IF ~ok
     THEN Caught(w, t)
     ELSE [w4 EXCEPT !.cur[k.view] = newUser, !.loading[k.view] = FALSE]

\* signup's create refusing an email that an identity already has
SignupAfterCreateUniqueEmail(w, t, ok) ==
  LET k == w.tasks[t]
      created == RepoCreate(w.users,
                   NewUser(NoId, toLowerCase(k.email), k.hash, k.name, k.token,
                           "true"))
      newUser == created[Len(created)]
      w1 == [w EXCEPT !.users = created, !.tasks[t].user = newUser,
                      !.ovf = @ \/ (Len(w.users) >= MaxUsers)]
      w2 == WriteSession(w1, k.view, k.token, k.expiry)
      w3 == Return(w2, t, TRUE, NoError, FALSE)
      w4 == DispatchUpdated(w3, k.view)
  IN IF ~ok
     THEN Caught(w, t)
     ELSE IF FindByEmail(w.users, k.email) # NoId
     THEN Return(w, t, FALSE, MsgExists, FALSE)
     ELSE [w4 EXCEPT !.cur[k.view] = newUser, !.loading[k.view] = FALSE]

SignupAfterCreate(w, t, ok) ==
  LET k == w.tasks[t]
      created == RepoCreate(w.users,
                   NewUser(NoId, toLowerCase(k.email), k.hash, k.name, k.token,
                           "true"))
      newUser == created[Len(created)]
      w1 == [w EXCEPT !.users = created, !.tasks[t].user = newUser,
                      !.ovf = @ \/ (Len(w.users) >= MaxUsers)]
      w2 == WriteSession(w1, k.view, k.token, k.expiry)
      w3 == Return(w2, t, TRUE, NoError, FALSE)
      w4 == DispatchUpdated(w3, k.view)
  IN IF ~ok
     THEN Caught(w, t)
     ELSE [w4 EXCEPT !.cur[k.view] = newUser, !.loading[k.view] = FALSE]

\* -------------------------------------------------------------------- login
LoginBegin(w, v, email, password) ==
  StartTask([w EXCEPT !.loading[v] = TRUE, !.error[v] = NoError],
            [IdleTask EXCEPT !.kind = "login", !.pc = "list", !.view = v,
                             !.email = email, !.password = password,
                             !.after = recent])

\* login without the test of the active-flag
LoginAfterListNoActiveCheck(w, t, ok) ==
  LET allUsers == RepoList(w.users)
      i == FindByEmail(allUsers, w.tasks[t].email)
  IN IF ~ok
     THEN Caught(w, t)
     ELSE IF i = NoId
     THEN Return(w, t, FALSE, MsgInvalid, FALSE)
     ELSE [w EXCEPT !.tasks[t].pc = "hash", !.tasks[t].user = allUsers[i]]

LoginAfterList(w, t, ok) ==
  LET allUsers == RepoList(w.users)
      i == FindByEmail(allUsers, w.tasks[t].email)
  IN IF ~ok
     THEN Caught(w, t)
     ELSE IF i = NoId
     THEN Return(w, t, FALSE, MsgInvalid, FALSE)
     ELSE IF allUsers[i].isActive # "true"
     THEN Return([w EXCEPT !.tasks[t].user = allUsers[i]], t, FALSE,
                 MsgDeactivated, FALSE)
     ELSE [w EXCEPT !.tasks[t].pc = "hash", !.tasks[t].user = allUsers[i]]

\* login's digest check reporting the mismatch with a message of its own
LoginAfterHashOwnMessage(w, t) ==
  LET k == w.tasks[t]
      passwordHash == hashPassword(k.password)
      w1 == Minted(w)
  IN IF k.user.passwordHash # passwordHash
     THEN Return(w, t, FALSE, "Incorrect password", FALSE)
     ELSE [w1 EXCEPT !.tasks[t].pc = "update",
                     !.tasks[t].token = generateSessionToken(w),
                     !.tasks[t].expiry = getSessionExpiry(now)]

LoginAfterHash(w, t) ==
  LET k == w.tasks[t]
      passwordHash == hashPassword(k.password)
      w1 == Minted(w)
  IN IF k.user.passwordHash # passwordHash
     THEN Return(w, t, FALSE, MsgInvalid, FALSE)
     ELSE [w1 EXCEPT !.tasks[t].pc = "update",
                     !.tasks[t].token = generateSessionToken(w),
                     !.tasks[t].expiry = getSessionExpiry(now)]

\* login writing the session store without persisting the token to the record
LoginAfterUpdateStoreOnly(w, t, ok) ==
  LET k == w.tasks[t]
      w1 == [w EXCEPT !.tasks[t].pc = "get"]
      w2 == WriteSession(w1, k.view, k.token, k.expiry)
  IN IF ~ok
     THEN Caught(w, t)
     ELSE DispatchUpdated(w2, k.view)

\* login writing the session store without the notification
LoginAfterUpdateNoDispatch(w, t, ok) ==
  LET k == w.tasks[t]
      w1 == [w EXCEPT !.users = RepoUpdate(w.users, k.user.id,
                                           [sessionToken |-> k.token]),
                      !.tasks[t].pc = "get"]
  IN IF ~ok
     THEN Caught(w, t)
     ELSE WriteSession(w1, k.view, k.token, k.expiry)

LoginAfterUpdate(w, t, ok) ==
  LET k == w.tasks[t]
      w1 == [w EXCEPT !.users = RepoUpdate(w.users, k.user.id,
                                           [sessionToken |-> k.token]),
                      !.tasks[t].pc = "get"]
      w2 == WriteSession(w1, k.view, k.token, k.expiry)
  IN IF ~ok
     THEN Caught(w, t)
     ELSE DispatchUpdated(w2, k.view)

LoginAfterGet(w, t, ok) ==
  LET k == w.tasks[t]
      updatedUser == RepoGet(w.users, k.user.id)
      w1 == IF updatedUser # NullUser
            THEN [w EXCEPT !.cur[k.view] = updatedUser]
            ELSE w
  IN IF ~ok
     THEN Caught(w, t)
     ELSE Return(w1, t, TRUE, NoError, FALSE)

\* ------------------------------------------------------------------- logout
\* the `finally` of logout
LogoutFinally(w, v) ==
  LET w1 == ClearSession(w, v)
  IN [w1 EXCEPT !.cur[v] = NullUser, !.error[v] = NoError]

LogoutResult(v, cu, threw, failed) ==
  Result("logout", v, << >>, "", "", ~threw, NoError, threw, cu.id, failed)

\* logout up to its await: `currentUser` is the value the callback closed over
LogoutBegin(w, v) ==
  LET cu == w.cur[v]
  IN IF cu # NullUser
     THEN StartTask(w, [IdleTask EXCEPT !.kind = "logout", !.pc = "update",
                                        !.view = v, !.user = cu])
     ELSE [LogoutFinally(w, v) EXCEPT !.done = LogoutResult(v, cu, FALSE, FALSE)]

\* logout clearing the local session in the `try`, not in the `finally`
LogoutAfterUpdateNoFinally(w, t, ok) ==
  LET k == w.tasks[t]
      w1 == [w EXCEPT !.users = RepoUpdate(w.users, k.user.id,
                                           [sessionToken |-> NoToken])]
  IN IF ok
     THEN [LogoutFinally(EndTask(w1, t), k.view) EXCEPT
             !.done = LogoutResult(k.view, k.user, FALSE, FALSE)]
     ELSE [EndTask(w, t) EXCEPT
             !.done = LogoutResult(k.view, k.user, FALSE, TRUE)]

\* the update's failure is caught and logged
LogoutAfterUpdate(w, t, ok) ==
  LET k == w.tasks[t]
      w1 == IF ok
            THEN [w EXCEPT !.users = RepoUpdate(w.users, k.user.id,
                                                [sessionToken |-> NoToken])]
            ELSE w
  IN [LogoutFinally(EndTask(w1, t), k.view) EXCEPT
        !.done = LogoutResult(k.view, k.user, FALSE, ~ok)]

\* ------------------------------------------------------------ updateProfile
NotLoggedIn(w, op, v, password, newPassword) ==
  [w EXCEPT !.done = Result(op, v, << >>, password, newPassword, FALSE,
                            MsgNoUser, FALSE, NoId, FALSE)]

UpdateProfileBegin(w, v, name) ==
  LET cu == w.cur[v]
  IN IF cu = NullUser
     THEN NotLoggedIn(w, "updateProfile", v, "", "")
     ELSE StartTask([w EXCEPT !.loading[v] = TRUE, !.error[v] = NoError],
                    [IdleTask EXCEPT !.kind = "updateProfile", !.pc = "update",
                                     !.view = v, !.user = cu, !.name = name])

UpdateProfileAfterUpdate(w, t, ok) ==
  LET k == w.tasks[t]
  IN IF ~ok
     THEN Caught(w, t)
     ELSE [w EXCEPT !.users = RepoUpdate(w.users, k.user.id, [name |-> k.name]),
                    !.tasks[t].pc = "get"]

UpdateProfileAfterGet(w, t, ok) ==
  LET k == w.tasks[t]
      updatedUser == RepoGet(w.users, k.user.id)
      w1 == IF updatedUser # NullUser
            THEN [w EXCEPT !.cur[k.view] = updatedUser]
            ELSE w
  IN IF ~ok
     THEN Caught(w, t)
     ELSE Return(w1, t, TRUE, NoError, FALSE)

\* ----------------------------------------------------------- changePassword
ChangePasswordBegin(w, v, currentPassword, newPassword) ==
  LET cu == w.cur[v]
  IN IF cu = NullUser
     THEN NotLoggedIn(w, "changePassword", v, currentPassword, newPassword)
     ELSE StartTask([w EXCEPT !.loading[v] = TRUE, !.error[v] = NoError],
                    [IdleTask EXCEPT !.kind = "changePassword", !.pc = "hash",
                                     !.view = v, !.user = cu,
                                     !.password = currentPassword,
                                     !.newPassword = newPassword])

\* the digest the current password is verified against
StoredDigest(w, cu) == cu.passwordHash

ChangePasswordVerify(w, t) ==
  LET k == w.tasks[t]
      currentHash == hashPassword(k.password)
  IN IF StoredDigest(w, k.user) # currentHash
     THEN Return(w, t, FALSE, MsgWrongCurrent, FALSE)
     ELSE [w EXCEPT !.tasks[t].pc = "newhash"]

ChangePasswordAfterNewHash(w, t) ==
  [w EXCEPT !.tasks[t].pc = "update",
            !.tasks[t].hash = hashPassword(w.tasks[t].newPassword)]

\* a password change that also revokes the identity's session
ChangePasswordAfterUpdateRevokesSession(w, t, ok) ==
  LET k == w.tasks[t]
      w1 == [w EXCEPT !.users = RepoUpdate(w.users, k.user.id,
                                           [passwordHash |-> k.hash,
                                            sessionToken |-> NoToken])]
  IN IF ~ok
     THEN Caught(w, t)
     ELSE Return(w1, t, TRUE, NoError, FALSE)

ChangePasswordAfterUpdate(w, t, ok) ==
  LET k == w.tasks[t]
      w1 == [w EXCEPT !.users = RepoUpdate(w.users, k.user.id,
                                           [passwordHash |-> k.hash])]
  IN IF ~ok
     THEN Caught(w, t)
     ELSE Return(w1, t, TRUE, NoError, FALSE)

\* ------------------------------------------------------------------ actions
\* `seq` restricts a start to states where nothing is in flight; the
\* continuations are the same in both specifications
Frame == UNCHANGED <<now, mounted, storeOf, adminEmail>>

CanStart(seq, v) == mounted[v] /\ (seq => Quiescent)

Running(t, kind, pc) == tasks[t].kind = kind /\ tasks[t].pc = pc

\* AuthProvider mounts (first load or reload of the page): useState's initial
\* values, the useAuth effect (loadSession, listeners), then the
\* initializeAdminUser effect when hasAdminAutoLogin()
Mount(seq, v) ==
  /\ seq => Quiescent
  /\ \A t \in Slots : tasks[t].view # v
  /\ LET w1 == [W0 EXCEPT !.cur[v] = NullUser, !.loading[v] = TRUE,
                          !.error[v] = NoError, !.pending[v] = 0]
         w2 == LoadSessionBegin(w1, v)
     IN Commit("Mount", v, InitializerBegin(w2, v))
  /\ mounted' = [mounted EXCEPT ![v] = TRUE]
  /\ UNCHANGED <<now, storeOf, adminEmail>>

\* handleStorageChange: a queued storage event reaches view v
StorageEvent(v) ==
  /\ mounted[v]
  /\ pending[v] > 0
  /\ Commit("StorageEvent", v,
            LoadSessionBegin([W0 EXCEPT !.pending[v] = @ - 1], v))
  /\ Frame

LoadSessionResume(t) ==
  /\ Running(t, "loadSession", "list")
  /\ \E ok \in BOOLEAN :
       Commit("LoadSessionResume", tasks[t].view, LoadSessionSettle(W0, t, ok))
  /\ Frame

InitializerList(t) ==
  /\ Running(t, "init", "list")
  /\ \E ok \in BOOLEAN :
       Commit("InitializerList", tasks[t].view, InitializerAfterList(W0, t, ok))
  /\ Frame

InitializerUpdate(t) ==
  /\ Running(t, "init", "update")
  /\ \E ok \in BOOLEAN :
       Commit("InitializerUpdate", tasks[t].view,
              InitializerAfterUpdate(W0, t, ok))
  /\ Frame

Signup(seq, v, E, P) ==
  /\ CanStart(seq, v)
  /\ Len(users) < MaxUsers
  /\ nextToken <= MaxTokens
  /\ \E email \in E, password \in P :
       Commit("Signup", v, SignupBegin(W0, v, email, password, "n"))
  /\ Frame

SignupList(t) ==
  /\ Running(t, "signup", "list")
  /\ \E ok \in BOOLEAN :
       Commit("SignupList", tasks[t].view, SignupCheck(W0, t, ok, "hash"))
  /\ Frame

SignupHash(t) ==
  /\ Running(t, "signup", "hash")
  /\ Commit("SignupHash", tasks[t].view, SignupAfterHash(W0, t))
  /\ Frame

SignupRecheck(t) ==
  /\ Running(t, "signup", "recheck")
  /\ \E ok \in BOOLEAN :
       Commit("SignupRecheck", tasks[t].view, SignupCheck(W0, t, ok, "create"))
  /\ Frame

SignupCreate(t) ==
  /\ Running(t, "signup", "create")
  /\ \E ok \in BOOLEAN :
       Commit("SignupCreate", tasks[t].view, SignupAfterCreate(W0, t, ok))
  /\ Frame

Login(seq, v, E, P) ==
  /\ CanStart(seq, v)
  /\ nextToken <= MaxTokens
  /\ \E email \in E, password \in P :
       Commit("Login", v, LoginBegin(W0, v, email, password))
  /\ Frame

LoginList(t) ==
  /\ Running(t, "login", "list")
  /\ \E ok \in BOOLEAN :
       Commit("LoginList", tasks[t].view, LoginAfterList(W0, t, ok))
  /\ Frame

LoginHash(t) ==
  /\ Running(t, "login", "hash")
  /\ Commit("LoginHash", tasks[t].view, LoginAfterHash(W0, t))
  /\ Frame

LoginUpdate(t) ==
  /\ Running(t, "login", "update")
  /\ \E ok \in BOOLEAN :
       Commit("LoginUpdate", tasks[t].view, LoginAfterUpdate(W0, t, ok))
  /\ Frame

LoginGet(t) ==
  /\ Running(t, "login", "get")
  /\ \E ok \in BOOLEAN :
       Commit("LoginGet", tasks[t].view, LoginAfterGet(W0, t, ok))
  /\ Frame

Logout(seq, v) ==
  /\ CanStart(seq, v)
  /\ Commit("Logout", v, LogoutBegin(W0, v))
  /\ Frame

LogoutUpdate(t) ==
  /\ Running(t, "logout", "update")
  /\ \E ok \in BOOLEAN :
       Commit("LogoutUpdate", tasks[t].view, LogoutAfterUpdate(W0, t, ok))
  /\ Frame

UpdateProfile(seq, v) ==
  /\ CanStart(seq, v)
  /\ \E name \in Names :
       Commit("UpdateProfile", v, UpdateProfileBegin(W0, v, name))
  /\ Frame

UpdateProfileUpdate(t) ==
  /\ Running(t, "updateProfile", "update")
  /\ \E ok \in BOOLEAN :
       Commit("UpdateProfileUpdate", tasks[t].view,
              UpdateProfileAfterUpdate(W0, t, ok))
  /\ Frame

UpdateProfileGet(t) ==
  /\ Running(t, "updateProfile", "get")
  /\ \E ok \in BOOLEAN :
       Commit("UpdateProfileGet", tasks[t].view,
              UpdateProfileAfterGet(W0, t, ok))
  /\ Frame

ChangePassword(seq, v, P) ==
  /\ CanStart(seq, v)
  /\ \E currentPassword \in P, newPassword \in P :
       Commit("ChangePassword", v, ChangePasswordBegin(W0, v, currentPassword, newPassword))
  /\ Frame

ChangePasswordHash(t) ==
  /\ Running(t, "changePassword", "hash")
  /\ Commit("ChangePasswordHash", tasks[t].view, ChangePasswordVerify(W0, t))
  /\ Frame

ChangePasswordNewHash(t) ==
  /\ Running(t, "changePassword", "newhash")
  /\ Commit("ChangePasswordNewHash", tasks[t].view,
            ChangePasswordAfterNewHash(W0, t))
  /\ Frame

ChangePasswordUpdate(t) ==
  /\ Running(t, "changePassword", "update")
  /\ \E ok \in BOOLEAN :
       Commit("ChangePasswordUpdate", tasks[t].view,
              ChangePasswordAfterUpdate(W0, t, ok))
  /\ Frame

\* the clock: a persistence call returns in far less than a day, and the
\* time is read only to stamp an expiry or to compare it with a stored one,
\* so it is let run while a stored session has yet to expire
Tick ==
  /\ Quiescent
  /\ \E s \in Stores : ls[s].expiry # NoExpiry /\ now <= ls[s].expiry
  /\ now < 1 + MaxTicks * SESSION_EXPIRY_DAYS
  /\ now' = now + SESSION_EXPIRY_DAYS
  /\ step' = [NoStep EXCEPT !.act = "Tick"]
  /\ UNCHANGED <<users, ls, currentUser, loading, error, tasks, pending,
                 nextToken, mounted, storeOf, adminEmail, recent>>

Resume ==
  \E t \in Slots :
    \/ LoadSessionResume(t)
    \/ InitializerList(t)
    \/ InitializerUpdate(t)
    \/ SignupList(t)
    \/ SignupHash(t)
    \/ SignupRecheck(t)
    \/ SignupCreate(t)
    \/ LoginList(t)
    \/ LoginHash(t)
    \/ LoginUpdate(t)
    \/ LoginGet(t)
    \/ LogoutUpdate(t)
    \/ UpdateProfileUpdate(t)
    \/ UpdateProfileGet(t)
    \/ ChangePasswordHash(t)
    \/ ChangePasswordNewHash(t)
    \/ ChangePasswordUpdate(t)

\* the calls of views VS, with emails from E and passwords from P
Start(seq, VS, E, P) ==
  \E v \in VS :
    \/ Mount(seq, v)
    \/ Signup(seq, v, E, P)
    \/ Login(seq, v, E, P)
    \/ Logout(seq, v)
    \/ UpdateProfile(seq, v)
    \/ ChangePassword(seq, v, P)

Deliver == \E v \in Views : StorageEvent(v)

\* calls start only when nothing is in flight; the loadSession runs they
\* trigger overlap them and one another
NextSeq == Start(TRUE, {1}, Emails, Passwords) \/ Resume \/ Tick

SpecSeq == InitSeq /\ [][NextSeq]_vars

\* two views, of one browser profile or of two; calls start only when
\* nothing is in flight
NextViews ==
  Start(TRUE, Views, {<<"A">>}, {"p"}) \/ Resume \/ Deliver \/ Tick

SpecViews == Init /\ [][NextViews]_vars

\* any interleaving of calls
Next == Start(FALSE, Views, Emails, Passwords) \/ Resume \/ Deliver \/ Tick

Spec == Init /\ [][Next]_vars

\* the session life cycle in two views: mount, signup, login and logout, each
\* call starting when nothing is in flight
StartSession ==
  \E v \in Views :
    \/ Mount(TRUE, v)
    \/ Signup(TRUE, v, {<<"A">>}, {"p"})
    \/ Login(TRUE, v, {<<"A">>}, {"p"})
    \/ Logout(TRUE, v)

ResumeSession ==
  \E t \in Slots :
    \/ LoadSessionResume(t)
    \/ InitializerList(t)
    \/ InitializerUpdate(t)
    \/ SignupList(t)
    \/ SignupHash(t)
    \/ SignupRecheck(t)
    \/ SignupCreate(t)
    \/ LoginList(t)
    \/ LoginHash(t)
    \/ LoginUpdate(t)
    \/ LoginGet(t)
    \/ LogoutUpdate(t)

NextSession == StartSession \/ ResumeSession \/ Deliver

SpecSession == Init /\ [][NextSession]_vars

\* every suspended call is resumed and every queued storage event delivered
FairSession == SpecSession /\ WF_vars(ResumeSession) /\ WF_vars(Deliver)

\* view v has no call or loadSession run in flight
ViewIdle(v) == \A t \in Slots : tasks[t].view # v

\* overlapping signups: two views mount and sign up in any interleaving, each
\* view starting a signup when it has nothing in flight itself
ResumeSignup ==
  \E t \in Slots :
    \/ LoadSessionResume(t)
    \/ InitializerList(t)
    \/ InitializerUpdate(t)
    \/ SignupList(t)
    \/ SignupHash(t)
    \/ SignupRecheck(t)
    \/ SignupCreate(t)

StartSignup ==
  \E v \in Views :
    \/ Mount(FALSE, v)
    \/ (ViewIdle(v) /\ Signup(FALSE, v, {<<"a">>, <<"A">>}, {"p"}))

NextRace == StartSignup \/ ResumeSignup \/ Deliver

SpecRace == Init /\ [][NextRace]_vars

\* one view that mounts, reloads and signs up, each when nothing is in
\* flight; the loadSession and initializer runs of a mount overlap
StartBoot ==
  \/ Mount(TRUE, 1)
  \/ Signup(TRUE, 1, {<<"a">>, <<"b">>}, {"p"})

NextBoot == StartBoot \/ ResumeSignup

SpecBoot == InitSeq /\ [][NextBoot]_vars

\* every suspended run is resumed
FairBoot == SpecBoot /\ WF_vars(ResumeSignup)

\* ------------------------------------------------------------------- claims
\* what the claims say about the state, independently of the code above
EqualUpToCase(e1, e2) ==
  /\ Len(e1) = Len(e2)
  /\ \A i \in DOMAIN e1 :
       \/ e1[i] = e2[i]
       \/ {e1[i], e2[i]} \in {{"a", "A"}, {"b", "B"}}

IsLowerCase(e) == \A i \in DOMAIN e : e[i] \in {"a", "b"}

\* the identities an email names
Named(us, email) == {i \in DOMAIN us : EqualUpToCase(us[i].email, email)}

\* the identities a session token names
Holders(us, sessionToken) ==
  {i \in DOMAIN us : us[i].sessionToken = sessionToken}

StoreOfView(v) == storeOf[v]

Returned(op) == step.res.op = op /\ ~step.res.failed

\* a login returned whose email names exactly identity i
LoginFor(i) ==
  /\ Returned("login")
  /\ Named(users, step.res.email) = {i}

WrongPassword(i) == hashPassword(step.res.password) # users[i].passwordHash

\* C1 (as stated): a login with a password whose digest differs from the
\* stored digest of the identity the email names, whatever that identity's
\* active-flag, returns the error a login with an unknown email returns,
\* "Invalid email or password"
C1_AsStated ==
  /\ (Returned("login") /\ Named(users, step.res.email) = {})
       => (~step.res.success /\ step.res.error = MsgInvalid)
  /\ \A i \in DOMAIN users :
       (LoginFor(i) /\ WrongPassword(i))
         => (~step.res.success /\ step.res.error = MsgInvalid)

\* C1 (amended): a login with a password whose digest differs from the stored
\* digest of the identity the email names returns the error a login with an
\* unknown email returns, "Invalid email or password", when that identity's
\* active-flag is "true"
C1_SameErrorWhenActive ==
  /\ (Returned("login") /\ Named(users, step.res.email) = {})
       => (~step.res.success /\ step.res.error = MsgInvalid)
  /\ \A i \in DOMAIN users :
       (LoginFor(i) /\ WrongPassword(i) /\ users[i].isActive = "true")
         => (~step.res.success /\ step.res.error = MsgInvalid)

C1_Witness ==
  \E i \in DOMAIN users :
    /\ LoginFor(i)
    /\ WrongPassword(i)
    /\ users[i].isActive = "true"
    /\ step.res.error = MsgInvalid

\* C2: a signup whose email equals an existing identity's email up to letter
\* case returns {success: false, error: "User with this email already
\* exists"}, creates no record, writes neither session store entry and leaves
\* currentUser unchanged
C2_DuplicateSignupRejected ==
  [][(step'.res.op = "signup" /\ ~step'.res.failed
        /\ Named(users, step'.res.email) # {})
      => /\ ~step'.res.success
         /\ step'.res.error = MsgExists
         /\ users' = users
         /\ ls' = ls
         /\ currentUser' = currentUser]_vars

C2_Witness ==
  /\ Returned("signup")
  /\ step.res.error = MsgExists
  /\ \E i \in DOMAIN users :
       /\ EqualUpToCase(users[i].email, step.res.email)
       /\ users[i].email # step.res.email

\* a loadSession run of view v that starts from what the store holds
BootstrapStarts(v) ==
  /\ step'.act \in {"Mount", "StorageEvent"}
  /\ step'.boot = v

SessionCleared(v) ==
  /\ ls'[StoreOfView(v)].token = NoToken
  /\ ls'[StoreOfView(v)].expiry = NoExpiry

\* C3: a bootstrap run that finds the stored expiry present and earlier than
\* the current time settles with currentUser null, loading false and both
\* session store entries removed, whether or not the stored token names an
\* identity
C3_ExpiredSessionPurged ==
  [][\A v \in Views :
       (/\ BootstrapStarts(v)
        /\ ls[StoreOfView(v)].expiry # NoExpiry
        /\ ls[StoreOfView(v)].expiry < now)
       => /\ currentUser'[v] = NullUser
          /\ ~loading'[v]
          /\ SessionCleared(v)]_vars

C3_Witness ==
  /\ step.act \in {"Mount", "StorageEvent"}
  /\ step.phase = "expired"
  /\ currentUser[step.boot] = NullUser
  /\ ls[storeOf[step.boot]].token = NoToken
  /\ \E i \in DOMAIN users : users[i].sessionToken # NoToken

\* a login returned that began right after a successful call of `op` by the
\* identity its email names
LoginAfter(op) ==
  /\ Returned("login")
  /\ step.res.after.op = op
  /\ step.res.after.id \in Named(users, step.res.email)

\* C4 (as stated): after a successful changePassword(current, new) a login
\* with the identity's email and the new password succeeds, and one with the
\* old password (old # new) fails with "Invalid email or password"
C4_AsStated ==
  LoginAfter("changePassword")
    => /\ step.res.password = step.res.after.newPassword => step.res.success
       /\ (/\ step.res.password = step.res.after.password
           /\ step.res.after.password # step.res.after.newPassword)
          => (~step.res.success /\ step.res.error = MsgInvalid)

\* C5 (as stated): changePassword by an authenticated caller fails with
\* "Current password is incorrect" exactly when digest(current) differs from
\* the digest in the identity's persisted record, and otherwise stores
\* digest(new) in the record
C5_AsStated ==
  [][(step'.res.op = "changePassword" /\ ~step'.res.failed
        /\ step'.res.id # NoId)
      => LET id == step'.res.id
             matches == hashPassword(step'.res.password) = users[id].passwordHash
         IN /\ (step'.res.error = MsgWrongCurrent) <=> ~matches
            /\ matches =>
                 users'[id].passwordHash = hashPassword(step'.res.newPassword)]_vars

\* C6: logout never throws and ends with both session store entries absent
\* and currentUser null, whether the update of the identity succeeded or
\* failed; with currentUser null it returns at once, without a persistence
\* call
C6_LogoutAlwaysClears ==
  [][/\ step'.res.op = "logout"
        => /\ ~step'.res.threw
           /\ currentUser'[step'.res.view] = NullUser
           /\ SessionCleared(step'.res.view)
     /\ \A v \in Views :
          (step'.act = "Logout" /\ step'.view = v /\ currentUser[v] = NullUser)
            => (step'.res.op = "logout" /\ users' = users /\ tasks' = tasks)]_vars

C6_Witness ==
  /\ step.res.op = "logout"
  /\ step.res.failed
  /\ currentUser[step.res.view] = NullUser
  /\ ls[storeOf[step.res.view]].token = NoToken
  /\ \E i \in DOMAIN users : i = step.res.id /\ users[i].sessionToken # NoToken

\* C7: a login with the password of the signup that succeeded just before it
\* and an email equal to that signup's up to letter case succeeds and settles
\* authenticated as the identity the signup created; a record that signup
\* creates stores the email in lowercase
C7_LoginAfterSignup ==
  /\ (/\ Returned("login")
      /\ step.res.after.op = "signup"
      /\ EqualUpToCase(step.res.email, step.res.after.email)
      /\ step.res.password = step.res.after.password)
     => /\ step.res.success
        /\ currentUser[step.res.view].id = step.res.after.id
        /\ step.res.after.id \in DOMAIN users
  /\ (Returned("signup") /\ step.res.success)
     => /\ step.res.id \in DOMAIN users
        /\ IsLowerCase(users[step.res.id].email)
        /\ EqualUpToCase(users[step.res.id].email, step.res.email)

C7_Witness ==
  /\ Returned("login")
  /\ step.res.after.op = "signup"
  /\ step.res.email # step.res.after.email
  /\ step.res.success
  /\ currentUser[step.res.view].id = step.res.after.id

\* the run of loadSession in slot t settles in this step, its list returned
Settles(t) ==
  /\ Running(t, "loadSession", "list")
  /\ tasks'[t].kind = "idle"
  /\ step'.act = "LoadSessionResume"
  /\ step'.phase # "error"

OnlyBootstrapsRunning ==
  \A t \in Slots : tasks[t].kind \in {"idle", "loadSession"}

\* C8: with nothing but bootstrap runs in flight, every run that read the
\* stored unexpired token, a token exactly one identity holds, settles
\* authenticated as that identity and leaves the identities and both session
\* store entries as they were, so that two such runs, in one view or in two,
\* end with the same identity
C8_BootstrapsConverge ==
  [][\A t \in Slots : \A i \in DOMAIN users :
       (/\ Settles(t)
        /\ OnlyBootstrapsRunning
        /\ ls[StoreOfView(tasks[t].view)].token = tasks[t].token
        /\ ls[StoreOfView(tasks[t].view)].expiry >= now
        /\ Holders(users, tasks[t].token) = {i})
       => /\ currentUser'[tasks[t].view] = users[i]
          /\ ~loading'[tasks[t].view]
          /\ users' = users
          /\ ls' = ls]_vars

C8_Witness ==
  /\ step.act = "LoadSessionResume"
  /\ step.phase = "found"
  /\ OnlyBootstrapsRunning
  /\ currentUser[step.boot] # NullUser
  /\ \A v \in Views : currentUser[v] = currentUser[step.boot]
  /\ \E t \in Slots :
       /\ tasks[t].kind = "loadSession"
       /\ tasks[t].view = step.boot
       /\ tasks[t].token = currentUser[step.boot].sessionToken
       /\ tasks[t].token = ls[storeOf[step.boot]].token

\* C9: a bootstrap run that read a non-empty token which no identity holds
\* when the list returns removes both session store entries and settles with
\* currentUser null, loading false and the error as it was
C9_OrphanTokenPurged ==
  [][\A t \in Slots :
       (Settles(t) /\ Holders(users, tasks[t].token) = {})
       => /\ tasks[t].token # NoToken
          /\ SessionCleared(tasks[t].view)
          /\ currentUser'[tasks[t].view] = NullUser
          /\ ~loading'[tasks[t].view]
          /\ error'[tasks[t].view] = error[tasks[t].view]]_vars

C9_Witness ==
  /\ step.act = "LoadSessionResume"
  /\ step.phase = "orphan"
  /\ currentUser[step.boot] = NullUser
  /\ error[step.boot] = NoError
  /\ ls[storeOf[step.boot]].token = NoToken
  /\ ls[storeOf[step.boot]].expiry = NoExpiry
  /\ \E i \in DOMAIN users : users[i].sessionToken # NoToken

\* C10: when a login that nothing overlaps persists its token, the identity's
\* session token becomes a token no identity and no store held, different
\* from its previous one, which no identity holds any longer (a store still
\* holding it is an orphan for a later bootstrap), and the store of the view
\* holds the new token with an expiry in the future; when the login returns
\* success the store still holds the identity's persisted token with an
\* expiry in the future and currentUser is the identity's record
C10_LoginMintsFreshToken ==
  [][\A t \in Slots :
       LET k == tasks[t]
           id == k.user.id
           s == StoreOfView(k.view)
       IN /\ (Running(t, "login", "update") /\ tasks'[t].pc = "get")
             => /\ users'[id].sessionToken # NoToken
                /\ users'[id].sessionToken # users[id].sessionToken
                /\ Holders(users, users'[id].sessionToken) = {}
                /\ \A x \in Stores : ls[x].token # users'[id].sessionToken
                /\ users[id].sessionToken # NoToken
                     => Holders(users', users[id].sessionToken) = {}
                /\ ls'[s].token = users'[id].sessionToken
                /\ ls'[s].expiry > now
          /\ (/\ Running(t, "login", "get")
              /\ tasks'[t].kind = "idle"
              /\ step'.res.op = "login"
              /\ step'.res.success)
             => /\ users'[id].sessionToken # NoToken
                /\ ls'[s].token = users'[id].sessionToken
                /\ ls'[s].expiry > now
                /\ currentUser'[k.view] = users'[id]]_vars

C10_Witness ==
  /\ Returned("login")
  /\ step.res.success
  /\ currentUser[step.res.view].sessionToken = ls[storeOf[step.res.view]].token
  /\ \E s \in Stores :
       /\ ls[s].token # NoToken
       /\ Holders(users, ls[s].token) = {}

\* C11: a login whose email names an identity whose active-flag is not "true"
\* returns {success: false, error: "Account is deactivated"} for every
\* password, in the step that returns from the list of identities: no token
\* has been minted, and the step changes neither the identities nor the
\* session stores nor currentUser; no login goes on to the digest check, the
\* update or the re-fetch with such an identity
C11_DeactivatedLoginRefused ==
  [][/\ \A t \in Slots : \A i \in DOMAIN users :
          (/\ Running(t, "login", "list")
           /\ tasks'[t] # tasks[t]
           /\ ~step'.res.failed
           /\ Named(users, tasks[t].email) = {i}
           /\ users[i].isActive # "true")
          => /\ step'.res.op = "login"
             /\ ~step'.res.success
             /\ step'.res.error = MsgDeactivated
             /\ tasks'[t].kind = "idle"
             /\ tasks[t].token = NoToken
             /\ nextToken' = nextToken
             /\ users' = users
             /\ ls' = ls
             /\ currentUser' = currentUser
     /\ \A t \in Slots :
          (tasks'[t].kind = "login" /\ tasks'[t].pc \in {"hash", "update", "get"})
          => /\ tasks'[t].user.id \in DOMAIN users'
             /\ users'[tasks'[t].user.id].isActive = "true"]_vars

C11_Witness ==
  /\ Returned("login")
  /\ step.res.error = MsgDeactivated
  /\ \E i \in DOMAIN users :
       /\ Named(users, step.res.email) = {i}
       /\ users[i].isActive # "true"
       /\ users[i].passwordHash = hashPassword(step.res.password)
       /\ users[i].sessionToken # NoToken
       /\ currentUser[step.res.view] = users[i]

\* C12: when signup calls do not overlap one another, no two identity records
\* have emails that are equal up to letter case
C12_EmailsUnique ==
  \A i \in DOMAIN users : \A j \in DOMAIN users :
    i # j => ~EqualUpToCase(users[i].email, users[j].email)

C12_Witness ==
  /\ Len(users) >= 2
  /\ C12_EmailsUnique
  /\ Returned("signup")
  /\ step.res.success
  /\ \E i \in DOMAIN users : users[i].email # toLowerCase(step.res.email)

\* C13: the duplicate check of signup is not atomic with the write: a signup
\* that passed both checks creates its record when its create returns,
\* whatever the identities are by then, and returns success; so two
\* overlapping signups for the same normalised email that both passed the
\* re-check before either create completed both succeed and leave two records
\* with the same email (the witness)
C13_CreateDoesNotRecheck ==
  [][\A t \in Slots :
       (/\ Running(t, "signup", "create")
        /\ tasks'[t] # tasks[t]
        /\ ~step'.res.failed)
       => /\ step'.res.op = "signup"
          /\ step'.res.success
          /\ Len(users') = Len(users) + 1
          /\ users'[Len(users')].email = toLowerCase(tasks[t].email)
          /\ \A i \in DOMAIN users : users'[i] = users[i]]_vars

C13_Witness ==
  /\ step.res.op = "signup"
  /\ step.res.success
  /\ Len(users) = 2
  /\ users[1].email = users[2].email
  /\ users[1].sessionToken # users[2].sessionToken

\* C14: an initializer run changes nothing when the initialized flag is set
\* or no administrator is configured (it returns in the step that mounts the
\* view: no list is awaited, the identities, the flag and the token counter
\* stay as they are, and the session entries are at most removed, by the
\* loadSession run of the same step), and when the list it awaits returns no
\* identity whose email equals the configured one up to letter case (nothing
\* but the run's own end changes: no identity, no store entry, no flag, no
\* loadSession run started by a notification)
C14_InitializerNoOp ==
  [][/\ \A v \in Views :
          (/\ step'.act = "Mount"
           /\ step'.view = v
           /\ (ls[StoreOfView(v)].adminInit \/ adminEmail = << >>))
          => /\ \A t \in Slots : tasks'[t].kind = "init" => tasks'[t] = tasks[t]
             /\ users' = users
             /\ nextToken' = nextToken
             /\ \A s \in Stores :
                  /\ ls'[s].adminInit = ls[s].adminInit
                  /\ ls'[s].token \in {ls[s].token, NoToken}
                  /\ ls'[s].expiry \in {ls[s].expiry, NoExpiry}
     /\ \A t \in Slots :
          (/\ Running(t, "init", "list")
           /\ tasks'[t] # tasks[t]
           /\ Named(users, adminEmail) = {})
          => /\ tasks' = [tasks EXCEPT ![t] = IdleTask]
             /\ users' = users
             /\ ls' = ls
             /\ nextToken' = nextToken
             /\ pending' = pending
             /\ currentUser' = currentUser
             /\ loading' = loading
             /\ error' = error]_vars

C14_Witness ==
  /\ step.act = "InitializerList"
  /\ adminEmail # << >>
  /\ Len(users) >= 1
  /\ Named(users, adminEmail) = {}
  /\ \A s \in Stores : ~ls[s].adminInit
  /\ \A t \in Slots : tasks[t].kind # "init"

\* the step ends the initializer run in slot t and changes nothing else: its
\* persistence call failed
InitializerGaveUp(t) ==
  /\ tasks' = [tasks EXCEPT ![t] = IdleTask]
  /\ users' = users
  /\ ls' = ls
  /\ nextToken' = nextToken

\* the step completes the initializer run of view v for identity i
Provisioned(v, i, sessionToken) ==
  /\ users'[i].sessionToken = sessionToken
  /\ ls'[StoreOfView(v)].token = sessionToken
  /\ ls'[StoreOfView(v)].expiry > now
  /\ ls'[StoreOfView(v)].adminInit

\* C15: an initializer run that started with the flag unset and finds the
\* configured identity completes, unless a persistence call fails, with the
\* store token equal to the identity's persisted token, an expiry in the
\* future and the flag set: an identity that has a token keeps it (nothing is
\* minted, the identities are unchanged), an identity without one gets a
\* newly minted token persisted; and the flag becomes set only in a step that
\* leaves both session entries written
C15_InitializerProvisions ==
  [][/\ \A t \in Slots : \A i \in DOMAIN users :
          LET v == tasks[t].view
          IN /\ (/\ Running(t, "init", "list")
                 /\ tasks'[t] # tasks[t]
                 /\ ~ls[StoreOfView(v)].adminInit
                 /\ i \in Named(users, adminEmail)
                 /\ \A j \in Named(users, adminEmail) : i <= j)
                => \/ InitializerGaveUp(t)
                   \/ /\ users[i].sessionToken # NoToken
                      /\ Provisioned(v, i, users[i].sessionToken)
                      /\ users' = users
                      /\ nextToken' = nextToken
                   \/ /\ users[i].sessionToken = NoToken
                      /\ Running(t, "init", "list")
                      /\ tasks'[t].pc = "update"
                      /\ tasks'[t].user = users[i]
                      /\ tasks'[t].token = nextToken
                      /\ nextToken' = nextToken + 1
                      /\ Holders(users, nextToken) = {}
                      /\ users' = users
                      /\ ls' = ls
             /\ (/\ Running(t, "init", "update")
                 /\ tasks'[t] # tasks[t]
                 /\ i = tasks[t].user.id)
                => \/ InitializerGaveUp(t)
                   \/ /\ Provisioned(v, i, tasks[t].token)
                      /\ tasks[t].token # NoToken
                      /\ \A j \in DOMAIN users : j # i => users'[j] = users[j]
     /\ \A s \in Stores :
          (ls'[s].adminInit /\ ~ls[s].adminInit)
          => /\ step'.act \in {"InitializerList", "InitializerUpdate"}
             /\ ls'[s].token # NoToken
             /\ ls'[s].expiry = now + SESSION_EXPIRY_DAYS
             /\ \E i \in Named(users', adminEmail) :
                  users'[i].sessionToken = ls'[s].token]_vars

\* the initializer reused the token of an identity that had one
C15_Witness ==
  /\ step.act = "InitializerList"
  /\ ls[storeOf[step.view]].adminInit
  /\ ls[storeOf[step.view]].token # NoToken
  /\ ls[storeOf[step.view]].expiry > now
  /\ nextToken > 1
  /\ \E i \in Named(users, adminEmail) :
       users[i].sessionToken = ls[storeOf[step.view]].token

\* the last step wrote the session entries of the store of `step.view`:
\* signup's create, login's update or the initializer's completion
SessionWritten ==
  \/ step.act = "SignupCreate" /\ step.res.op = "signup" /\ step.res.success
  \/ /\ step.act = "LoginUpdate"
     /\ \E t \in Slots : Running(t, "login", "get") /\ tasks[t].view = step.view
  \/ /\ step.act \in {"InitializerList", "InitializerUpdate"}
     /\ ls[storeOf[step.view]].adminInit

\* view v, a view of the store just written, with sessionToken stored
AfterWrite(v, sessionToken) ==
  /\ SessionWritten
  /\ mounted[v]
  /\ storeOf[v] = storeOf[step.view]
  /\ sessionToken # NoToken
  /\ ls[storeOf[v]].token = sessionToken

\* view v has settled as the identity that holds sessionToken, or the store
\* has been written again
SettledAs(v, sessionToken) ==
  \/ ls[storeOf[v]].token # sessionToken
  \/ /\ pending[v] = 0
     /\ \A t \in Slots : ~(tasks[t].kind = "loadSession" /\ tasks[t].view = v)
     /\ \E i \in DOMAIN users :
          /\ Holders(users, sessionToken) = {i}
          /\ currentUser[v] = users[i]

\* C16 (as stated): when no list of a loadSession run fails, after a write of the session
\* store by signup, login or the initializer every mounted view of that store,
\* the writer's and the others, eventually has no loadSession run in flight
\* or queued and has as currentUser the record of the identity that holds the
\* stored token, unless the store is written again before
C16_AsStated ==
  ([](step.phase # "error"))
    => \A v \in Views : \A sessionToken \in 1..MaxTokens :
         AfterWrite(v, sessionToken) ~> SettledAs(v, sessionToken)

\* the step changes a session entry of the store of view v
SessionEntriesChange(v) ==
  \/ ls'[StoreOfView(v)].token # ls[StoreOfView(v)].token
  \/ ls'[StoreOfView(v)].expiry # ls[StoreOfView(v)].expiry

\* the step ends with a loadSession run of view v that read the store as the
\* step leaves it: the run a notification dispatched after the write starts
Notified(v) ==
  /\ step'.boot = v
  /\ \/ /\ step'.phase = "suspended"
        /\ \E t \in Slots :
             /\ tasks'[t] # tasks[t]
             /\ tasks'[t].kind = "loadSession"
             /\ tasks'[t].view = v
             /\ tasks'[t].token = ls'[StoreOfView(v)].token
     \/ /\ step'.phase = "notoken"
        /\ ls'[StoreOfView(v)].token = NoToken

\* C17 (as stated): every step in which a view changes the session entries,
\* setting or removing them, dispatches the notification, so that the
\* listener of the view runs loadSession again
C17_AsStated ==
  [][\A v \in Views :
       (step'.view = v /\ SessionEntriesChange(v)) => Notified(v)]_vars

\* C17 (amended): signup, login and the initializer dispatch the notification
\* in the step that sets the session entries, so that the listener of the
\* view runs loadSession again; a step that removes the entries (logout,
\* loadSession's purge of an expired or unmatched token) dispatches nothing
C17_SettersNotify ==
  [][/\ SessionWritten' => Notified(step'.view)
     /\ \A v \in Views :
          (/\ step'.view = v
           /\ SessionEntriesChange(v)
           /\ ls'[StoreOfView(v)].token # NoToken)
          => (SessionWritten' /\ Notified(v))
     /\ \A v \in Views :
          (/\ step'.view = v
           /\ SessionEntriesChange(v)
           /\ ls'[StoreOfView(v)].token = NoToken)
          => /\ ~Notified(v)
             /\ ls'[StoreOfView(v)].expiry = NoExpiry
             /\ step'.act \in
                  {"Logout", "LogoutUpdate", "Mount", "LoadSessionResume",
                   "StorageEvent"}]_vars

C17_Witness ==
  /\ step.act = "LoginUpdate"
  /\ SessionWritten
  /\ step.boot = step.view
  /\ step.phase = "suspended"
  /\ currentUser[step.view] # NullUser
  /\ currentUser[step.view].sessionToken # ls[storeOf[step.view]].token

ChangePasswordSteps ==
  {"ChangePassword", "ChangePasswordHash", "ChangePasswordNewHash",
   "ChangePasswordUpdate"}

\* C18: no step of changePassword, on its success path or on a failure path,
\* changes a persisted session token or a session store entry, and the
\* calling view keeps the identity it was authenticated as
C18_ChangePasswordKeepsSession ==
  [][step'.act \in ChangePasswordSteps
       => /\ ls' = ls
          /\ Len(users') = Len(users)
          /\ \A i \in 1..Len(users) :
               users'[i].sessionToken = users[i].sessionToken
          /\ currentUser'[step'.view].id = currentUser[step'.view].id
          /\ currentUser'[step'.view].sessionToken
               = currentUser[step'.view].sessionToken
          /\ (step'.res.op = "changePassword" /\ step'.res.id # NoId)
               => /\ currentUser'[step'.view] # NullUser
                  /\ currentUser'[step'.view].id = step'.res.id]_vars

C18_Witness ==
  /\ step.act = "ChangePasswordUpdate"
  /\ step.res.op = "changePassword"
  /\ step.res.success
  /\ step.res.password # step.res.newPassword
  /\ currentUser[step.view].id = step.res.id
  /\ users[step.res.id].passwordHash = hashPassword(step.res.newPassword)
  /\ users[step.res.id].sessionToken # NoToken
  /\ users[step.res.id].sessionToken = ls[storeOf[step.view]].token
  /\ ls[storeOf[step.view]].expiry # NoExpiry

ResultOps == {"signup", "login", "updateProfile", "changePassword"}

ValidationErrors ==
  {MsgExists, MsgInvalid, MsgDeactivated, MsgWrongCurrent, MsgNoUser}

\* C19: every signup, login, updateProfile and changePassword call that ends
\* returns a result and throws nothing; a failed validation returns
\* success false with its message and a failed persistence call returns
\* success false with the repository's message; updateProfile and
\* changePassword started with currentUser null return "No user logged in"
\* in the same step, starting no persistence call and changing no state
C19_NeverThrows ==
  [][/\ \A t \in Slots :
          (tasks[t].kind \in ResultOps /\ tasks'[t] = IdleTask)
          => /\ step'.res.op = tasks[t].kind
             /\ step'.res.view = tasks[t].view
     /\ step'.res.op \in ResultOps
          => /\ ~step'.res.threw
             /\ step'.res.success <=> (step'.res.error = NoError)
             /\ step'.res.failed
                  => (~step'.res.success /\ step'.res.error = RepoError)
             /\ (~step'.res.success /\ ~step'.res.failed)
                  => step'.res.error \in ValidationErrors
     /\ (/\ step'.act \in {"UpdateProfile", "ChangePassword"}
         /\ currentUser[step'.view] = NullUser)
          => /\ step'.res.op \in {"updateProfile", "changePassword"}
             /\ ~step'.res.success
             /\ ~step'.res.threw
             /\ step'.res.error = MsgNoUser
             /\ UNCHANGED <<users, ls, tasks, currentUser, loading, error>>]_vars

C19_Witness ==
  /\ step.res.op \in ResultOps
  /\ step.res.failed
  /\ ~step.res.success
  /\ ~step.res.threw
  /\ step.res.error = RepoError
  /\ error[step.view] = RepoError
  /\ \A t \in Slots : tasks[t].kind \notin ResultOps

LoadingOps == {"loadSession", "signup", "login", "updateProfile", "changePassword"}

\* a call of view v that sets loading has started and has not completed
InFlight(v) ==
  \E t \in Slots : tasks[t].view = v /\ tasks[t].kind \in LoadingOps

\* C20 (as stated): in every state loading is true for a view that has a
\* loadSession, signup, login, updateProfile or changePassword call in
\* flight, overlapping calls included, and false for a mounted view that
\* has none
C20_AsStated ==
  \A v \in Views :
    /\ InFlight(v) => loading[v]
    /\ (mounted[v] /\ ~InFlight(v)) => ~loading[v]

\* the session entries of store s hold the live session of some identity
LiveSession(s) ==
  /\ ls[s].token # NoToken
  /\ ls[s].expiry # NoExpiry
  /\ ~isSessionExpired(ls[s].expiry, now)
  /\ Holders(users, ls[s].token) # {}

\* C21 (as stated): no loadSession step removes session entries whose token
\* is, when it is removed, the persisted session token of an identity and
\* whose expiry has not passed
C21_AsStated ==
  [][\A v \in Views :
       (/\ step'.boot = v
        /\ step'.phase \in {"orphan", "expired"}
        /\ ls'[StoreOfView(v)].token = NoToken)
       => ~LiveSession(StoreOfView(v))]_vars

SessionOps == {"loadSession", "signup", "login", "logout", "init"}

\* no loadSession, signup, login, logout or initializer run of view v is in
\* flight and no storage event is waiting for its listener
ViewQuiescent(v) ==
  /\ mounted[v]
  /\ pending[v] = 0
  /\ \A t \in Slots : tasks[t].view = v => tasks[t].kind \notin SessionOps

\* the stored token of view v is the one persisted for its currentUser
SessionConsistent(v) ==
  /\ ls[StoreOfView(v)].token # NoToken
  /\ ls[StoreOfView(v)].token = users[currentUser[v].id].sessionToken

\* C22 (as stated): in every state where view v is quiescent and its
\* currentUser is not null, the session store of v holds a token and that
\* token is the one persisted in the record of currentUser's identity; it is
\* stated for the behaviours in which no persistence call fails
C22_AsStated ==
  ([](step.phase # "error" /\ ~step.res.failed))
    => [](\A v \in Views :
            (ViewQuiescent(v) /\ currentUser[v] # NullUser)
            => SessionConsistent(v))

\* C23 (as stated): no step (of login, of loadSession, or one that follows
\* the initializer's provisioning) sets the currentUser of a view to an
\* identity whose active-flag is not "true"
C23_AsStated ==
  [][\A v \in Views :
       (currentUser'[v] # currentUser[v] /\ currentUser'[v] # NullUser)
       => currentUser'[v].isActive = "true"]_vars

\* C24: a loadSession run that settles authenticated sets currentUser to an
\* identity whose persisted session token is not empty and is the token the
\* run read from the session store; a logout whose update succeeded leaves
\* the identity's persisted token empty, so that until a token is minted for
\* it no run settles as that identity, whatever token a session store holds
C24_BootstrapNeedsToken ==
  [][/\ \A t \in Slots :
          (Settles(t) /\ step'.phase = "found")
          => LET cu == currentUser'[tasks[t].view]
             IN /\ cu # NullUser
                /\ tasks[t].token # NoToken
                /\ cu.sessionToken = tasks[t].token
                /\ users[cu.id].sessionToken = tasks[t].token
                /\ users'[cu.id].sessionToken = tasks[t].token
     /\ (/\ step'.res.op = "logout"
         /\ ~step'.res.failed
         /\ step'.res.id # NoId)
          => users'[step'.res.id].sessionToken = NoToken]_vars

\* a run read the old token of the only identity, whose persisted token a
\* logout has emptied, found no holder and settled unauthenticated
C24_Witness ==
  /\ step.act = "LoadSessionResume"
  /\ step.phase = "orphan"
  /\ Len(users) = 1
  /\ users[1].sessionToken = NoToken
  /\ nextToken > 1
  /\ currentUser[step.boot] = NullUser
  /\ ls[storeOf[step.boot]].token = NoToken

\* the session life cycle of two views of one browser profile with the
\* clock, which lets the stored session expire between calls
NextExpiry == StartSession \/ ResumeSession \/ Deliver \/ Tick

SpecExpiry == InitSeq /\ [][NextExpiry]_vars

\* every awaited persistence call returns and every storage event is delivered
FairExpiry == SpecExpiry /\ WF_vars(ResumeSession) /\ WF_vars(Deliver)

\* C25: when every persistence call returns and every storage event is
\* delivered, each state with a run in flight or a storage event waiting is
\* followed by a state with none: the loadSession runs that a mount, signup,
\* login, logout or initializer run triggers, in its own view and in the
\* others, come to an end
C25_RunsTerminate == (~Quiescent) ~> Quiescent

\* nothing is in flight after the stored session expired, one view purged it
\* and the storage event of the purge made the other view run loadSession
C25_Witness ==
  /\ Quiescent
  /\ step.act = "StorageEvent"
  /\ step.boot # 0
  /\ step.phase = "notoken"
  /\ now > SESSION_EXPIRY_DAYS
  /\ nextToken > 1
  /\ \A v \in Views : mounted[v] /\ currentUser[v] = NullUser /\ ~loading[v]
  /\ \A s \in Stores : ls[s].token = NoToken /\ ls[s].expiry = NoExpiry

====
